---- MODULE Spec2Model ----
(***************************************************************************)
(* Model of src/dblog.py: MongoFormatter (LogRecord -> document) and       *)
(* MongoHandler (connect / emit / close against a MongoDB store reached    *)
(* through pymongo).                                                       *)
(*                                                                         *)
(* Python values are tagged pairs <<tag, payload>> so that values of       *)
(* different Python types can be compared: S = str, I = int, T = tuple,    *)
(* M = dict, None = None.  A LogRecord is its __dict__, a function from    *)
(* attribute names to values; a document is a function from keys to values.*)
(***************************************************************************)
EXTENDS Integers, Sequences, FiniteSets, TLC

VARIABLES
    \* ---- MongoHandler configuration (set by __init__, lines 78-94) ----
    url, username, password, fail_silently, capped,
    \* ---- MongoHandler attributes ----
    connection,      \* self.connection
    connnection,     \* self.connnection, the attribute line 102 assigns
    db,              \* self.db
    collection,      \* self.collection
    authenticated,   \* self.authenticated
    \* ---- the constructor call ----
    ctor,            \* "running", "returned" or "raised"
    ctorError,       \* exception type that left __init__, or "none"
    connectFailed,   \* MongoClient(...) raised PyMongoError
    authOutcome,     \* "notAttempted", "accepted", "rejected"
    createOutcome,   \* "notAttempted", "created", "exists"
    connectCalls,    \* number of MongoClient(...) calls made
    \* ---- the store and the driver ----
    clients,         \* MongoClient objects currently open
    session,         \* TRUE while the store holds an authenticated session
    storeColl,       \* the named collection as the store has it
    inserted,        \* documents the store accepted, in order
    \* ---- calls made so far ----
    emits,           \* one entry per emit call
    closes,          \* one entry per close call: the driver calls it made
    \* ---- a formatter used on its own ----
    record,          \* the LogRecord handed to format
    documents,       \* what successive format calls on it returned
    formatRaised,    \* a format call raised
    DEFAULT_PROPERTIES,  \* MongoFormatter.DEFAULT_PROPERTIES (class attribute)
    \* ---- caller threads ----
    pc,              \* where each thread is inside handle/emit or close
    lock             \* holder of the handler lock (Handler.acquire), or None

cfgVars == <<url, username, password, fail_silently, capped>>
attrVars == <<connection, connnection, db, collection, authenticated>>
ctorVars == <<ctor, ctorError, connectFailed, authOutcome, createOutcome,
              connectCalls>>
storeVars == <<clients, session, storeColl, inserted>>
callVars == <<emits, closes>>
sinkVars == <<cfgVars, attrVars, ctorVars, storeVars, callVars>>
fmtVars == <<record, documents, formatRaised, DEFAULT_PROPERTIES>>
threadVars == <<pc, lock>>
vars == <<sinkVars, fmtVars, threadVars>>

----------------------------------------------------------------------------
(* Bounds *)
MaxEmits == 2
MaxCloses == 2
MaxFormats == 2

----------------------------------------------------------------------------
(* Python values *)
None == <<"none", "None">>
S(s) == <<"str", s>>
I(n) == <<"int", n>>
T(t) == <<"tuple", t>>
M(m) == <<"map", m>>
Exc(typeName, args) == <<"exc", [type |-> typeName, args |-> args]>>
Timestamp(time, inc) == <<"Timestamp", <<time, inc>>>>

Range(seq) == { seq[j] : j \in 1..Len(seq) }

\* Python truthiness of a str-or-None value (`if self.url`)
Truthy(v) == v # None /\ v # S("")

\* str(x) for the values an exc_info tuple can hold at index 1:
\* str(None) is 'None'; str of an exception is '' with no args, the
\* argument with one, and the repr of the args tuple otherwise.
RECURSIVE ReprItems(_)
ReprItems(args) ==
    IF Len(args) = 0 THEN ""
    ELSE "'" \o Head(args) \o "'"
         \o (IF Len(args) > 1 THEN ", " ELSE "") \o ReprItems(Tail(args))

str(v) ==
    IF v = None THEN "None"
    ELSE IF v[1] = "exc"
         THEN (IF Len(v[2].args) = 0 THEN ""
               ELSE IF Len(v[2].args) = 1 THEN v[2].args[1]
               ELSE "(" \o ReprItems(v[2].args) \o ")")
    ELSE v[2]

----------------------------------------------------------------------------
(* logging.LogRecord *)

\* The attributes LogRecord.__init__ sets.  The floats are kept as integers:
\* `created` in microseconds, `msecs` in thousandths of a millisecond, so
\* that int() is a truncating division.
LogRecord(name, levelname, pathname, lineno, msg, args, exc_info, func, createdMs, subMs) ==
    [ name |-> S(name), msg |-> msg, args |-> args,
      levelname |-> S(levelname), levelno |-> I(20),
      pathname |-> S(pathname), filename |-> S(pathname), module |-> S("dblog"),
      exc_info |-> exc_info, exc_text |-> None,
      lineno |-> I(lineno), funcName |-> S(func),
      created |-> <<"float", createdMs * 1000 + subMs>>,
      msecs |-> <<"float", (createdMs % 1000) * 1000 + subMs>>,
      relativeCreated |-> <<"float", 0>>,
      thread |-> I(1), threadName |-> S("MainThread"),
      processName |-> S("MainProcess"), process |-> I(1) ]

\* int(x) of a float kept as an integer count of 1/perUnit
int(f, perUnit) == f[2] \div perUnit

\* rec.__dict__ extended with the caller's extra attributes
WithExtra(rec, extra) ==
    [k \in DOMAIN rec \cup DOMAIN extra |->
        IF k \in DOMAIN extra THEN extra[k] ELSE rec[k]]

\* msg % args where msg is a sequence of literal parts and "%s" marks
RECURSIVE Interpolate(_, _)
Interpolate(parts, args) ==
    IF Len(parts) = 0 THEN ""
    ELSE IF Head(parts) = "%s"
         THEN Head(args) \o Interpolate(Tail(parts), Tail(args))
         ELSE Head(parts) \o Interpolate(Tail(parts), args)

RECURSIVE Placeholders(_)
Placeholders(parts) ==
    IF Len(parts) = 0 THEN 0
    ELSE (IF Head(parts) = "%s" THEN 1 ELSE 0) + Placeholders(Tail(parts))

RECURSIVE Join(_)
Join(parts) == IF Len(parts) = 0 THEN "" ELSE Head(parts) \o Join(Tail(parts))

\* LogRecord.getMessage: raises TypeError when args do not fit msg
getMessageRaises(rec) ==
    /\ Len(rec.args[2]) > 0
    /\ Placeholders(rec.msg[2]) # Len(rec.args[2])

getMessage(rec) ==
    IF Len(rec.args[2]) > 0
    THEN Interpolate(rec.msg[2], rec.args[2])
    ELSE Join(rec.msg[2])

\* logging.Formatter.formatException: traceback.print_exception into a
\* buffer, final newline stripped.
RECURSIVE FrameLines(_)
FrameLines(frames) ==
    IF Len(frames) = 0 THEN ""
    ELSE "  File " \o Head(frames) \o "\n" \o FrameLines(Tail(frames))

formatException(ei) ==
    LET etype == ei[2][1]
        value == ei[2][2]
        tb    == ei[2][3]
        head  == IF tb = None THEN ""
                 ELSE "Traceback (most recent call last):\n" \o FrameLines(tb[2])
        last  == IF etype = None THEN "None"
                 ELSE IF value = None \/ str(value) = "" THEN etype[2]
                 ELSE etype[2] \o ": " \o str(value)
    IN  head \o last

----------------------------------------------------------------------------
(* MongoFormatter *)

DefaultRecord == LogRecord("", "", "", 0, S(""), S(""), S(""), "", 0, 0)

BaselineKeys ==
    {"timestamp", "level", "thread", "threadName", "message", "loggerName",
     "fileName", "module", "method", "lineNumber"}

\* variant: the message is the raw msg attribute, not getMessage()
StandardDocument_rawMsg(rec) ==
    [ timestamp  |-> Timestamp(int(rec.created, 1000000), int(rec.msecs, 1000)),
      level      |-> rec.levelname,
      thread     |-> rec.thread,
      threadName |-> rec.threadName,
      message    |-> rec.msg,
      loggerName |-> rec.name,
      fileName   |-> rec.pathname,
      module     |-> rec.module,
      method     |-> rec.funcName,
      lineNumber |-> rec.lineno ]

\* lines 43-54
StandardDocument(rec) ==
    [ timestamp  |-> Timestamp(int(rec.created, 1000000), int(rec.msecs, 1000)),
      level      |-> rec.levelname,
      thread     |-> rec.thread,
      threadName |-> rec.threadName,
      message    |-> S(getMessage(rec)),
      loggerName |-> rec.name,
      fileName   |-> rec.pathname,
      module     |-> rec.module,
      method     |-> rec.funcName,
      lineNumber |-> rec.lineno ]

\* dict.update / item assignment: keys of `more` win
Update(doc, more) ==
    [k \in DOMAIN doc \cup DOMAIN more |->
        IF k \in DOMAIN more THEN more[k] ELSE doc[k]]

\* variant: the key is always set, null without exception info
ExceptionDocument_nullKey(rec) ==
    IF rec.exc_info # None
    THEN [exception |-> M([ message    |-> S(str(rec.exc_info[2][2])),
                            code       |-> I(0),
                            stackTrace |-> S(formatException(rec.exc_info)) ])]
    ELSE [exception |-> None]

\* lines 56-63
ExceptionDocument(rec) ==
    IF rec.exc_info # None
    THEN [exception |-> M([ message    |-> S(str(rec.exc_info[2][2])),
                            code       |-> I(0),
                            stackTrace |-> S(formatException(rec.exc_info)) ])]
    ELSE << >>

\* variant: the set difference taken the wrong way round
ContextualExtra_reversed(rec, defaults) ==
    IF Cardinality(defaults) # Cardinality(DOMAIN rec)
    THEN defaults \ DOMAIN rec
    ELSE {}

\* lines 65-69
ContextualExtra(rec, defaults) ==
    IF Cardinality(defaults) # Cardinality(DOMAIN rec)
    THEN DOMAIN rec \ defaults
    ELSE {}

\* MongoFormatter.format, lines 40-70
MongoFormatter_format(rec, defaults) ==
    LET extra == ContextualExtra(rec, defaults)
    IN  Update(Update(StandardDocument(rec), ExceptionDocument(rec)),
               [k \in extra |-> rec[k]])

\* format raises when getMessage does (nothing in format catches it)
formatRaises(rec) == getMessageRaises(rec)

\* variant: format caches the rendered message on the record, as
\* logging.Formatter.format does
RecordAfterFormat_caching(rec) ==
    Update(rec, [message |-> S(getMessage(rec))])

\* format reads the record's attributes and assigns none (lines 40-70)
RecordAfterFormat(rec) == rec

----------------------------------------------------------------------------
(* pymongo objects *)
database_name == "logs"
collection_name == "logs"
capped_max == 1000
capped_size == 1000000

MongoClient(target) == <<"MongoClient", target>>
Database(client, name) == <<"Database", [client |-> client, name |-> name]>>
\* A Collection handle; `options` are the create options the handle was
\* constructed with (none when it was obtained as db[name]).
CollectionHandle(database, name, options) ==
    <<"Collection", [database |-> database, name |-> name, options |-> options]>>
CappedOptions(max, size) == M([capped |-> TRUE, max |-> max, size |-> size])

\* db[name]: a handle by name, nothing is sent to the store
GetCollection(database, name) == CollectionHandle(database, name, None)

\* The named collection as the store has it: None when absent,
\* otherwise its options.
PlainColl == M([capped |-> FALSE, max |-> 0, size |-> 0])
StoreCollStates == {None, PlainColl, CappedOptions(50, 4096)}

----------------------------------------------------------------------------
(* MongoHandler._connect, lines 97-123 *)

\* variants of the PyMongoError handler that ignore the flag
except_PyMongoError_alwaysRaise(failSilently) == "raise"

except_PyMongoError_alwaysReturn(failSilently) == "return"

\* lines 106-110: what the handler for PyMongoError does
except_PyMongoError(failSilently) == IF failSilently THEN "return" ELSE "raise"

\* variant: the fallback constructs the handle with the capped options again
except_OperationFailure_recreate(database) ==
    CollectionHandle(database, collection_name,
                     CappedOptions(capped_max, capped_size))

\* lines 119-121: the handler for OperationFailure from the capped create
except_OperationFailure(database) == GetCollection(database, collection_name)

\* lines 100-104: the attribute each branch assigns
ConnectAssign(u) ==
    IF Truthy(u)
    THEN [connection |-> connection, connnection |-> MongoClient("url")]
    ELSE [connection |-> MongoClient("hostport"), connnection |-> connnection]

\* The whole of _connect as a function of what the store does:
\*   reachable    MongoClient(...) succeeds (else raises ConnectionFailure)
\*   credsOk      the store accepts the credentials
\*   authRaises   a rejected authenticate raises OperationFailure
\*                (else it returns False), depending on the driver
_connect(reachable, credsOk, authRaises) ==
    LET base == [ connection |-> connection, connnection |-> connnection,
                  db |-> db, collection |-> collection,
                  authenticated |-> authenticated,
                  ctor |-> "returned", ctorError |-> "none",
                  connectFailed |-> FALSE,
                  authOutcome |-> "notAttempted",
                  createOutcome |-> "notAttempted",
                  \* line 102 or line 104 is reached once
                  connectCalls |-> connectCalls + 1,
                  clients |-> clients, session |-> session,
                  storeColl |-> storeColl ]
    IN
    IF ~reachable
    THEN \* lines 106-110
         IF except_PyMongoError(fail_silently) = "return"
         THEN [base EXCEPT !.connectFailed = TRUE]
         ELSE [base EXCEPT !.connectFailed = TRUE, !.ctor = "raised",
                           !.ctorError = "ConnectionFailure"]
    ELSE
    LET a  == ConnectAssign(url)
        opened == IF Truthy(url) THEN a.connnection ELSE a.connection
        s1 == [base EXCEPT !.connection = a.connection,
                           !.connnection = a.connnection,
                           !.clients = clients \cup {opened}]
    IN
    IF s1.connection = None
    THEN \* line 112 subscripts None
         [s1 EXCEPT !.ctor = "raised", !.ctorError = "TypeError"]
    ELSE
    LET d  == Database(s1.connection, database_name)
        s2 == [s1 EXCEPT !.db = d]
        attempt == username # None /\ password # None
    IN
    IF attempt /\ ~credsOk /\ authRaises
    THEN \* line 114 raises, nothing catches it
         [s2 EXCEPT !.ctor = "raised", !.ctorError = "OperationFailure",
                    !.authOutcome = "rejected"]
    ELSE
    LET s3 == IF ~attempt THEN s2
              ELSE IF credsOk
                   THEN [s2 EXCEPT !.authenticated = TRUE, !.session = TRUE,
                                   !.authOutcome = "accepted"]
                   ELSE [s2 EXCEPT !.authenticated = FALSE,
                                   !.authOutcome = "rejected"]
    IN
    IF capped
    THEN IF storeColl = None
         THEN \* line 118 creates the capped collection
              [s3 EXCEPT !.collection =
                             CollectionHandle(d, collection_name,
                                 CappedOptions(capped_max, capped_size)),
                         !.storeColl = CappedOptions(capped_max, capped_size),
                         !.createOutcome = "created"]
         ELSE \* line 118 raises OperationFailure: the collection exists
              [s3 EXCEPT !.collection = except_OperationFailure(d),
                         !.createOutcome = "exists"]
    ELSE \* line 123
         [s3 EXCEPT !.collection = GetCollection(d, collection_name)]

Connect ==
    /\ ctor = "running"
    /\ \E reachable \in BOOLEAN, credsOk \in BOOLEAN, authRaises \in BOOLEAN :
         LET r == _connect(reachable, credsOk, authRaises)
         IN  /\ connection' = r.connection
             /\ connnection' = r.connnection
             /\ db' = r.db
             /\ collection' = r.collection
             /\ authenticated' = r.authenticated
             /\ ctor' = r.ctor
             /\ ctorError' = r.ctorError
             /\ connectFailed' = r.connectFailed
             /\ authOutcome' = r.authOutcome
             /\ createOutcome' = r.createOutcome
             /\ connectCalls' = r.connectCalls
             /\ clients' = r.clients
             /\ session' = r.session
             /\ storeColl' = r.storeColl
    /\ UNCHANGED <<cfgVars, inserted, callVars, fmtVars, threadVars>>

----------------------------------------------------------------------------
(* Records *)
ExcInfos ==
    { None,
      T(<<None, None, None>>),
      T(<<S("Exception"), Exc("Exception", <<"exc1">>), <<"tb", <<"dblog.py">>>> >>),
      T(<<S("ValueError"), Exc("ValueError", << >>), <<"tb", <<"a.py", "b.py">>>> >>),
      T(<<S("KeyError"), Exc("KeyError", <<"k", "v">>), None>>) }

ExtraKeys == {"ip", "level", "exception"}
ExtraValues == {S("10.0.0.1"), I(7)}
Extras == UNION { [D -> ExtraValues] : D \in SUBSET ExtraKeys }

\* (msg, args) pairs: no args, fitting args, args that do not fit
Messages ==
    { <<<<"Hello World">>, << >>>>,
      <<<<"user ", "%s", " in">>, <<"bob">>>>,
      <<<<"plain">>, <<"stray">>>> }

MakeRecord(m, ei, extra) ==
    WithExtra(LogRecord("bmclog", "INFO", "/code/dblog.py", 157,
                        <<"fmt", m[1]>>, T(m[2]), ei, "<module>", 1468617, 400),
              extra)

Records == { MakeRecord(m, ei, x) : m \in Messages, ei \in ExcInfos, x \in Extras }

\* the records handed to emit
EmitRecords ==
    << MakeRecord(<<<<"Hello World">>, << >>>>, None, << >>),
       MakeRecord(<<<<"user ", "%s", " in">>, <<"bob">>>>,
                  T(<<S("Exception"), Exc("Exception", <<"exc1">>), <<"tb", <<"dblog.py">>>> >>),
                  [ip |-> S("10.0.0.1")]),
       MakeRecord(<<<<"plain">>, <<"stray">>>>, None, << >>) >>

----------------------------------------------------------------------------
(* MongoHandler.emit, lines 132-140 *)

\* variant: a loud handler lets the exception go on to the caller
except_Exception_reraise(failSilently) ==
    IF ~failSilently
    THEN [handleError |-> 0, raised |-> TRUE]
    ELSE [handleError |-> 0, raised |-> FALSE]

\* lines 138-140: what the handler for Exception does with a failure
except_Exception(failSilently) ==
    IF ~failSilently
    THEN [handleError |-> 1, raised |-> FALSE]
    ELSE [handleError |-> 0, raised |-> FALSE]

\* variant: a rejected insert is tried a second time
InsertAttempts_retry(called, storeOk) ==
    IF called THEN (IF storeOk THEN 1 ELSE 2) ELSE 0

\* line 137: collection.insert is called once when format returned
InsertAttempts(called, storeOk) == IF called THEN 1 ELSE 0

\* storeOk: the store accepts the insert (else insert raises)
\* lines 134-140 for record i
emit_body(i, storeOk) ==
    /\ LET rec     == EmitRecords[i]
           ready   == collection # None
           called  == ready /\ ~formatRaises(rec)   \* insert is called
           ok      == called /\ storeOk
           failed  == ready /\ ~ok
           handled == IF failed THEN except_Exception(fail_silently)
                      ELSE [handleError |-> 0, raised |-> FALSE]
       IN  /\ inserted' = IF ok
                          THEN Append(inserted,
                                   MongoFormatter_format(rec, DEFAULT_PROPERTIES))
                          ELSE inserted
           \* a closed MongoClient reopens when it is used again
           /\ clients' = IF ok THEN clients \cup {collection[2].database[2].client}
                         ELSE clients
           \* db[name] creates the collection on first insert
           /\ storeColl' = IF ok /\ storeColl = None THEN PlainColl ELSE storeColl
           /\ emits' = Append(emits, [ record      |-> i,
                                       closesBefore |-> Len(closes),
                                       insertCalls |-> InsertAttempts(called, storeOk),
                                       stored      |-> ok,
                                       handleError |-> handled.handleError,
                                       raised      |-> handled.raised ])
    /\ UNCHANGED <<cfgVars, attrVars, ctorVars, session, closes, fmtVars>>

emit(i, storeOk) ==
    /\ ctor = "returned"
    /\ Len(emits) < MaxEmits
    /\ emit_body(i, storeOk)
    /\ UNCHANGED threadVars

Emit == \E i \in 1..Len(EmitRecords), storeOk \in BOOLEAN : emit(i, storeOk)

----------------------------------------------------------------------------
(* MongoHandler.close, lines 125-130 *)

\* variant: the connection is closed before the logout
close_calls_swapped(auth, conn) ==
    (IF conn # None THEN <<"close">> ELSE << >>)
    \o (IF auth THEN <<"logout">> ELSE << >>)

\* the driver calls close makes, in order
close_calls(auth, conn) ==
    (IF auth THEN <<"logout">> ELSE << >>)
    \o (IF conn # None THEN <<"close">> ELSE << >>)

\* variant: close forgets the connection handle and keeps the others
Close_clearsConnection ==
    /\ ctor = "returned"
    /\ Len(closes) < MaxCloses
    /\ LET calls == close_calls(authenticated, connection)
       IN  /\ closes' = Append(closes, calls)
           /\ session' = IF "logout" \in Range(calls) THEN FALSE ELSE session
           /\ clients' = IF "close" \in Range(calls)
                         THEN clients \ {connection} ELSE clients
    /\ connection' = None
    /\ UNCHANGED <<cfgVars, connnection, db, collection, authenticated,
                   ctorVars, storeColl, inserted, emits, fmtVars, threadVars>>

Close ==
    /\ ctor = "returned"
    /\ Len(closes) < MaxCloses
    /\ LET calls == close_calls(authenticated, connection)
       IN  /\ closes' = Append(closes, calls)
           /\ session' = IF "logout" \in Range(calls) THEN FALSE ELSE session
           /\ clients' = IF "close" \in Range(calls)
                         THEN clients \ {connection} ELSE clients
    /\ UNCHANGED <<cfgVars, attrVars, ctorVars, storeColl, inserted, emits, fmtVars,
                   threadVars>>

----------------------------------------------------------------------------
(* MongoFormatter.format called directly on one record *)
Format ==
    /\ Len(documents) < MaxFormats
    /\ ~formatRaised
    /\ IF formatRaises(record)
       THEN /\ formatRaised' = TRUE
            /\ UNCHANGED <<record, documents>>
       ELSE /\ documents' = Append(documents,
                                MongoFormatter_format(record, DEFAULT_PROPERTIES))
            /\ record' = RecordAfterFormat(record)
            /\ UNCHANGED formatRaised
    /\ UNCHANGED <<DEFAULT_PROPERTIES, sinkVars, threadVars>>

----------------------------------------------------------------------------
(* Specifications *)

\* __init__ lines 77-94 have run: the configuration is stored and the
\* handles are None; _connect (line 95) has not run yet.
InitSink ==
    /\ url \in {None, S(""), S("mongodb://db.example:27017")}
    /\ username \in {None, S("admin")}
    /\ password \in {None, S("secret")}
    /\ fail_silently \in BOOLEAN
    /\ capped \in BOOLEAN
    /\ connection = None
    /\ connnection = None
    /\ db = None
    /\ collection = None
    /\ authenticated = FALSE
    /\ ctor = "running"
    /\ ctorError = "none"
    /\ connectFailed = FALSE
    /\ authOutcome = "notAttempted"
    /\ createOutcome = "notAttempted"
    /\ connectCalls = 0
    /\ clients = {}
    /\ session = FALSE
    /\ storeColl \in StoreCollStates
    /\ inserted = << >>
    /\ emits = << >>
    /\ closes = << >>

Threads == {"t1", "t2"}

InitThreads ==
    /\ pc = [t \in Threads |-> "idle"]
    /\ lock = None

InitFmt ==
    /\ documents = << >>
    /\ formatRaised = FALSE
    /\ DEFAULT_PROPERTIES = DOMAIN DefaultRecord

Init ==
    /\ InitSink
    /\ InitFmt
    /\ InitThreads
    /\ record = EmitRecords[1]

Next == Connect \/ Emit \/ Close

Spec == Init /\ [][Next]_vars

\* The formatter alone: a handler on the default configuration that is
\* never connected, and any record.
InitFormatter ==
    /\ url = None /\ username = None /\ password = None
    /\ fail_silently = FALSE /\ capped = FALSE
    /\ connection = None /\ connnection = None /\ db = None
    /\ collection = None /\ authenticated = FALSE
    /\ ctor = "running" /\ ctorError = "none" /\ connectFailed = FALSE
    /\ authOutcome = "notAttempted" /\ createOutcome = "notAttempted"
    /\ connectCalls = 0
    /\ clients = {} /\ session = FALSE /\ storeColl = None
    /\ inserted = << >> /\ emits = << >> /\ closes = << >>
    /\ InitFmt
    /\ InitThreads
    /\ record \in Records

NextFormatter == Format

SpecFormatter == InitFormatter /\ [][NextFormatter]_vars

----------------------------------------------------------------------------
(* emit and close called from several threads *)

\* Handler.handle takes the handler lock around emit (logging.Handler,
\* the base class on line 73); MongoHandler.close (lines 125-130) takes none.
HandleAcquire(t) ==
    /\ ctor = "returned"
    /\ pc[t] = "idle"
    /\ Len(emits) < MaxEmits
    /\ lock = None
    /\ lock' = <<"thread", t>>
    /\ pc' = [pc EXCEPT ![t] = "emit_check"]
    /\ UNCHANGED <<sinkVars, fmtVars>>

\* line 134: the Ready test
EmitCheck(t) ==
    /\ pc[t] = "emit_check"
    /\ collection # None
    /\ pc' = [pc EXCEPT ![t] = "emit_insert"]
    /\ UNCHANGED <<sinkVars, fmtVars, lock>>

\* lines 134-140 on a sink that is not Ready: nothing is done
EmitSkip(t) ==
    /\ pc[t] = "emit_check"
    /\ collection = None
    /\ \E i \in 1..Len(EmitRecords) : emit_body(i, FALSE)
    /\ pc' = [pc EXCEPT ![t] = "emit_release"]
    /\ UNCHANGED lock

\* lines 135-140: format, insert and the handler complete
EmitInsert(t) ==
    /\ pc[t] = "emit_insert"
    /\ \E i \in 1..Len(EmitRecords), storeOk \in BOOLEAN : emit_body(i, storeOk)
    /\ pc' = [pc EXCEPT ![t] = "emit_release"]
    /\ UNCHANGED lock

\* Handler.handle releases the lock
HandleRelease(t) ==
    /\ pc[t] = "emit_release"
    /\ lock' = None
    /\ pc' = [pc EXCEPT ![t] = "idle"]
    /\ UNCHANGED <<sinkVars, fmtVars>>

\* close calls that have started and not yet returned
ClosesRunning == Cardinality({u \in Threads : pc[u] = "close_conn"})

\* lines 127-128
CloseLogout(t) ==
    /\ ctor = "returned"
    /\ pc[t] = "idle"
    /\ Len(closes) + ClosesRunning < MaxCloses
    /\ session' = IF authenticated THEN FALSE ELSE session
    /\ pc' = [pc EXCEPT ![t] = "close_conn"]
    /\ UNCHANGED <<cfgVars, attrVars, ctorVars, clients, storeColl, inserted,
                   callVars, fmtVars, lock>>

\* lines 129-130
CloseConnection(t) ==
    /\ pc[t] = "close_conn"
    /\ clients' = IF connection # None THEN clients \ {connection} ELSE clients
    /\ closes' = Append(closes, close_calls(authenticated, connection))
    /\ pc' = [pc EXCEPT ![t] = "idle"]
    /\ UNCHANGED <<cfgVars, attrVars, ctorVars, session, storeColl, inserted,
                   emits, fmtVars, lock>>

\* a sink on the host/port path, constructed before the threads start
InitConcurrent ==
    /\ InitSink
    /\ url = None
    /\ ~capped
    /\ storeColl = None
    /\ InitFmt
    /\ InitThreads
    /\ record = EmitRecords[1]

NextConcurrent ==
    \/ Connect
    \/ \E t \in Threads :
         \/ HandleAcquire(t)
         \/ EmitCheck(t)
         \/ EmitSkip(t)
         \/ EmitInsert(t)
         \/ HandleRelease(t)
         \/ CloseLogout(t)
         \/ CloseConnection(t)

SpecConcurrent == InitConcurrent /\ [][NextConcurrent]_vars

\* an emit's insert is in flight: past the Ready test, insert not finished
InsertInFlight == \E u \in Threads : pc[u] = "emit_insert"

\* a step in which close calls the driver: db.logout() or connection.close()
CloseCallsDriver ==
    \E t \in Threads :
        \/ pc[t] = "idle" /\ pc'[t] = "close_conn" /\ authenticated
        \/ pc[t] = "close_conn" /\ pc'[t] = "idle" /\ connection # None

\* C11: in no interleaving does close call db.logout() or
\* connection.close() while an emit's insert is in flight.
C11_CloseExcludesInFlightEmit ==
    [][CloseCallsDriver => ~InsertInFlight]_vars

----------------------------------------------------------------------------
(* Properties of MongoHandler, checked under Spec *)

\* an emit on a sink whose collection handle is set did not store its record
EmitFailed(e) == collection # None /\ ~e.stored

\* C1: with fail_silently set and MongoClient raising PyMongoError, the
\* constructor returns normally, no emit raises, no emit calls insert and
\* the store holds no document, however many emits follow.
C1_SilentUnreachableIsInert ==
    (fail_silently /\ connectFailed) =>
        /\ ctor = "returned"
        /\ \A j \in 1..Len(emits) :
               ~emits[j].raised /\ emits[j].insertCalls = 0 /\ ~emits[j].stored
        /\ inserted = << >>

C1_Witness ==
    fail_silently /\ connectFailed /\ ctor = "returned" /\ Len(emits) >= 2

\* C2: with fail_silently unset and MongoClient raising PyMongoError, the
\* constructor raises that connection error; it never returns a sink.
C2_LoudUnreachableRaises ==
    (~fail_silently /\ connectFailed) =>
        /\ ctor = "raised"
        /\ ctorError = "ConnectionFailure"
        /\ collection = None

C2_Witness == ~fail_silently /\ connectFailed /\ ctor = "raised"

\* C3: in capped mode, when the capped create fails because the collection
\* exists, the constructor returns normally and self.collection is the
\* existing collection obtained by name, no capped options on the handle
\* and none applied to the collection in the store.
C3_CappedConflictFallsBack ==
    (capped /\ createOutcome = "exists") =>
        /\ ctor = "returned"
        /\ collection = CollectionHandle(db, collection_name, None)
        /\ storeColl \in {PlainColl, CappedOptions(50, 4096)}

C3_Witness ==
    /\ capped /\ createOutcome = "exists" /\ ctor = "returned"
    /\ storeColl = PlainColl /\ collection # None

\* C4: emit never raises; a failure of format or insert on a Ready sink
\* calls handleError exactly once when fail_silently is unset and not at
\* all when it is set; an emit that did not fail never calls it.
C4_EmitNeverRaises ==
    \A j \in 1..Len(emits) :
        /\ ~emits[j].raised
        /\ emits[j].handleError =
               (IF EmitFailed(emits[j]) /\ ~fail_silently THEN 1 ELSE 0)

\* a loud sink on which a format failure and an insert failure were reported
C4_Witness ==
    /\ ~fail_silently /\ collection # None
    /\ \E j \in 1..Len(emits) :
           emits[j].insertCalls = 0 /\ emits[j].handleError = 1
    /\ \E j \in 1..Len(emits) :
           emits[j].insertCalls = 1 /\ ~emits[j].stored /\ emits[j].handleError = 1

\* C5: with a URL configured and the store reachable, the constructor ends
\* with self.connection the client made from the URL, no host/port client,
\* a non-null collection handle, and every later emit of a record that
\* formats calls insert.
C5_UrlConnectionUsed ==
    (Truthy(url) /\ ctor # "running" /\ ~connectFailed) =>
        /\ ctor = "returned"
        /\ connection = MongoClient("url")
        /\ MongoClient("hostport") \notin clients
        /\ collection # None
        /\ \A j \in 1..Len(emits) :
               ~formatRaises(EmitRecords[emits[j].record]) =>
                   emits[j].insertCalls = 1

\* C6: a rejected authentication never makes the constructor raise when
\* fail_silently is set, and the constructor raises only for a connection
\* failure with fail_silently unset.
C6_OnlyConnectionErrorFatal ==
    /\ (fail_silently /\ authOutcome = "rejected") => ctor # "raised"
    /\ ctor = "raised" => (connectFailed /\ ~fail_silently)

\* C10: every close call logs out exactly when authenticate was called and
\* accepted during _connect, closes the connection exactly when a
\* connection handle exists, and logs out before it closes.
C10_CloseLogsOutThenCloses ==
    \A j \in 1..Len(closes) :
        LET calls == closes[j]
        IN  /\ ("logout" \in Range(calls)) <=>
                   (username # None /\ password # None /\ authOutcome = "accepted")
            /\ ("close" \in Range(calls)) <=> (connection # None)
            /\ Len(calls) <= 2
            /\ Len(calls) = 2 => (calls[1] = "logout" /\ calls[2] = "close")

C10_Witness ==
    /\ authOutcome = "accepted"
    /\ Len(closes) >= 1 /\ closes[1] = <<"logout", "close">>
    /\ session = FALSE /\ connection \notin clients

\* C12: after one close, a second close makes no driver call: no further
\* logout and no further connection close.
C12_SecondCloseDoesNothing ==
    \A j \in 2..Len(closes) : closes[j] = << >>

\* C14: an emit that starts after a close call has returned does not call
\* insert.
C14_NoInsertAfterClose ==
    \A j \in 1..Len(emits) :
        emits[j].closesBefore > 0 => emits[j].insertCalls = 0

\* C15: MongoClient is called exactly once, by the constructor; a sink
\* left without a collection handle by a failed connection never gets one;
\* no emit calls insert more than once.
C15_NothingRetried ==
    [][ /\ connectCalls' <= 1
        /\ ctor' # "running" => connectCalls' = 1
        /\ (ctor = "returned" /\ connectFailed /\ collection = None) =>
               (collection' = None /\ connection' = None)
        /\ \A j \in 1..Len(emits') : emits'[j].insertCalls <= 1
      ]_vars

C15_Witness ==
    /\ ctor = "returned" /\ connectFailed /\ collection = None
    /\ connectCalls = 1
    /\ Len(emits) >= 1 /\ Len(closes) >= 1

\* C16: once the constructor has returned or raised, and after any emit
\* and close calls, a collection handle implies a database handle and a
\* connection handle, and authenticated holds only with a database handle.
C16_HandlesNested ==
    ctor # "running" =>
        /\ collection # None => (db # None /\ connection # None)
        /\ authenticated => db # None

C16_Witness ==
    /\ ctor = "returned"
    /\ collection # None /\ db # None /\ connection # None /\ authenticated
    /\ Len(emits) >= 1 /\ Len(closes) >= 1

----------------------------------------------------------------------------
(* Properties of MongoFormatter.format, checked under SpecFormatter *)

HasExcInfo == record.exc_info # None

\* the `exception` entry of a document is as lines 57-63 build it
ExceptionEntryOk(doc) ==
    /\ doc.exception[1] = "map"
    /\ DOMAIN doc.exception[2] = {"message", "code", "stackTrace"}
    /\ doc.exception[2].code = I(0)
    /\ doc.exception[2].message = S(str(record.exc_info[2][2]))
    /\ doc.exception[2].stackTrace[1] = "str"
    /\ doc.exception[2].stackTrace[2] # ""

ExceptionIffExcInfo(doc) ==
    /\ ("exception" \in DOMAIN doc) <=> HasExcInfo
    /\ HasExcInfo => ExceptionEntryOk(doc)

\* C7 as stated: every document format returns has an `exception` key iff
\* the record carries exception info, and the entry is then a mapping with
\* code 0, message str(exc_info[1]) and a non-empty stackTrace.
C7_ExceptionIffExcInfo_AsStated ==
    \A j \in 1..Len(documents) : ExceptionIffExcInfo(documents[j])

\* C7 amended: the same, for every record that has no attribute of its own
\* named `exception`.
C7_ExceptionIffExcInfo ==
    ("exception" \notin DOMAIN record) =>
        \A j \in 1..Len(documents) : ExceptionIffExcInfo(documents[j])

C7_Witness ==
    /\ "exception" \notin DOMAIN record
    /\ HasExcInfo
    /\ record.exc_info[2][2] # None
    /\ Len(documents) >= 1
    /\ "exception" \in DOMAIN documents[1]

\* C8: the keys format copies from the record are exactly the record's
\* attributes outside the baseline reference set, each with the record's
\* raw value; the document has no key besides these, the ten fixed keys
\* and `exception` when exception info is present.
C8_ExtensionKeysExact ==
    \A j \in 1..Len(documents) :
        LET doc == documents[j]
            ext == DOMAIN record \ DOMAIN DefaultRecord
            exc == IF HasExcInfo THEN {"exception"} ELSE {}
        IN  /\ DOMAIN doc = BaselineKeys \cup exc \cup ext
            /\ \A k \in ext : doc[k] = record[k]
            /\ ext = {} => DOMAIN doc = BaselineKeys \cup exc

C8_Witness ==
    /\ Len(documents) >= 1
    /\ DOMAIN record \ DOMAIN DefaultRecord = {"ip", "level"}
    /\ documents[1]["ip"] = I(7)

\* C9: a format call leaves the record and DEFAULT_PROPERTIES as they
\* were, and returns the document the previous call on the record returned.
C9_FormatIdempotent ==
    [][ /\ record' = record
        /\ DEFAULT_PROPERTIES' = DEFAULT_PROPERTIES
        /\ (Len(documents) >= 1 /\ Len(documents') = Len(documents) + 1) =>
               documents'[Len(documents')] = documents[Len(documents)]
      ]_vars

C9_Witness ==
    /\ Len(documents) >= 2
    /\ DOMAIN record # DOMAIN DefaultRecord
    /\ HasExcInfo

\* the ten baseline values as the record's standard attributes give them
BaselineFromRecord(doc) ==
    /\ doc.timestamp = Timestamp(record.created[2] \div 1000000,
                                 record.msecs[2] \div 1000)
    /\ doc.level = record.levelname
    /\ doc.thread = record.thread
    /\ doc.threadName = record.threadName
    /\ doc.message = S(getMessage(record))
    /\ doc.loggerName = record.name
    /\ doc.fileName = record.pathname
    /\ doc.module = record.module
    /\ doc.method = record.funcName
    /\ doc.lineNumber = record.lineno

\* C13 as stated: whatever extra fields the record carries, each of the
\* ten baseline keys of the document holds the value derived from the
\* record's standard attributes.
C13_BaselineNeverOverwritten_AsStated ==
    \A j \in 1..Len(documents) : BaselineFromRecord(documents[j])

\* C13 amended: the same, for every record none of whose extra fields is
\* named like a baseline key.
C13_BaselineNeverOverwritten ==
    ((DOMAIN record \ DOMAIN DefaultRecord) \cap BaselineKeys = {}) =>
        \A j \in 1..Len(documents) : BaselineFromRecord(documents[j])

C13_Witness ==
    /\ DOMAIN record \ DOMAIN DefaultRecord = {"ip", "exception"}
    /\ Len(record.args[2]) > 0
    /\ Len(documents) >= 1
    /\ documents[1].message = S("user bob in")
    /\ documents[1].level = S("INFO")

====
